---- MODULE Spec2Model ----
(***************************************************************************)
(* Verification model of the Tutorbook web app's data layer and views:     *)
(*   - Data.post and the UI handlers that call its REST wrappers,          *)
(*   - Payments.initStripe / getAccountURL,                                *)
(*   - Data.getUser / deleteUser / createUser / updateUser,                *)
(*   - Data.updateUserAvailability,                                        *)
(*   - Snackbar.view,                                                      *)
(*   - Data.listen,                                                        *)
(*   - the database security rules for users/{uid},                        *)
(*   - Dashboard.viewCards / viewCard,                                     *)
(*   - Config.viewLocationCards and ConfirmationDialog,                    *)
(*   - ViewApptDialog's clock-in / clock-out button,                       *)
(*   - PaidRequestDialog / StripeRequestDialog.sendRequest,                *)
(*   - ViewApptDialog.update.                                              *)
(* Each component has its own variables, initial predicate and next-state  *)
(* relation; a component's specification leaves the other components'      *)
(* variables at their idle values.                                         *)
(***************************************************************************)
EXTENDS Integers, Sequences, FiniteSets, TLC

VARIABLES
  calls,        \* REST: one record per handler invocation started by the user
  accountURL,   \* REST: Payments.accountURL, "none" until the fetch succeeds
  db,           \* USER: the documents of the database, a set of <<collection, id>>
  lastOp,       \* USER: the latest Data user call with its effects
  avUser,       \* AVAIL: the user object handed to updateUserAvailability
  avAppts,      \* AVAIL: the user's appointment documents
  avDone,       \* AVAIL: whether updateUserAvailability has returned
  bars,         \* SNACK: the snackbar elements in #snackbars (newest first)
  timers,       \* SNACK: pending timer callbacks with the ticks left to each
  views,        \* SNACK: one record per Snackbar.view call
  lcalls,       \* LISTEN: one record per Data.listen call
  listeners,    \* LISTEN: window.app.listeners, the unsubscribe handles
  rdoc,         \* RULES: the users/{uid} document of the database emulator
  rreq,         \* RULES: the latest client request with the rules' decision
  cards,        \* DASH: the card elements of one dashboard list, top first
  snaps,        \* DASH: per query, the documents of its latest snapshot
  supervised,   \* CONFIG: ids of the locations the latest snapshot holds
  locations,    \* CONFIG: Config.locations, its keys in insertion order
  hrsConfig,    \* CONFIG: location ids of the rule entries of Config.hrsConfig
  cfgThrew,     \* CONFIG: whether the latest recycler handler threw
  locCards,     \* CONFIG: ids of the location cards in the scroller
  dialogs,      \* CONFIG: the ConfirmationDialogs made by the delete action
  deleteCalls,  \* CONFIG: location ids passed to Data.deleteLocation
  apptDialog,   \* CLOCK: the appointment dialog's class and whether it is viewed
  timerOn,      \* CLOCK: whether this.timer is set
  fabLabel,     \* CLOCK: the text of the floating button's label
  navLocked,    \* CLOCK: whether the header's click handler is the locking one
  clockReqs,    \* CLOCK: the clock-in and clock-out requests, oldest first
  lastClick,    \* CLOCK: the latest click with what it did
  payDialog,    \* PAY: the paid request dialog's class and payment.transaction
  payPending,   \* PAY: PayPal authorizations and Stripe tokens awaited
  newRequests,  \* PAY: number of Data.newRequest calls
  sendLog,      \* PAY: one record per finished sendRequest call
  current,      \* TIMER: the value of the Current text field
  total,        \* TIMER: the value of the Total text field
  ticks         \* TIMER: calls of update by the interval timer so far

restVars   == <<calls, accountURL>>
userVars   == <<db, lastOp>>
availVars  == <<avUser, avAppts, avDone>>
snackVars  == <<bars, timers, views>>
listenVars == <<lcalls, listeners>>
rulesVars  == <<rdoc, rreq>>
\* The data layer, snackbar and listeners, and the components after them.
coreVars   == <<restVars, userVars, availVars, snackVars, listenVars>>
dashVars   == <<cards, snaps>>
configVars == <<supervised, locations, hrsConfig, cfgThrew, locCards, dialogs,
                deleteCalls>>
clockVars  == <<apptDialog, timerOn, fabLabel, navLocked, clockReqs, lastClick>>
payVars    == <<payDialog, payPending, newRequests, sendLog>>
timerVars  == <<current, total, ticks>>
laterVars  == <<rulesVars, dashVars, configVars, clockVars, payVars, timerVars>>
vars == <<calls, accountURL, db, lastOp, avUser, avAppts, avDone,
          bars, timers, views, lcalls, listeners, rdoc, rreq,
          cards, snaps, supervised, locations, hrsConfig, cfgThrew, locCards,
          dialogs, deleteCalls, apptDialog, timerOn, fabLabel, navLocked,
          clockReqs, lastClick, payDialog, payPending, newRequests, sendLog,
          current, total, ticks>>

RestIdle   == calls = <<>> /\ accountURL = "none"
UserIdle   == db = {} /\ lastOp = "idle"
AvailIdle  == avUser = "idle" /\ avAppts = <<>> /\ avDone = FALSE
SnackIdle  == bars = <<>> /\ timers = {} /\ views = <<>>
ListenIdle == lcalls = <<>> /\ listeners = <<>>
RulesIdle  == rdoc = "idle" /\ rreq = "idle"
CoreIdle   == RestIdle /\ UserIdle /\ AvailIdle /\ SnackIdle /\ ListenIdle
DashIdle   == cards = <<>> /\ snaps = <<>>
ConfigIdle ==
  /\ supervised = {} /\ locations = <<>> /\ hrsConfig = <<>> /\ cfgThrew = FALSE
  /\ locCards = {} /\ dialogs = <<>> /\ deleteCalls = <<>>
ClockIdle ==
  /\ apptDialog = "idle" /\ timerOn = FALSE /\ fabLabel = "idle"
  /\ navLocked = FALSE /\ clockReqs = <<>> /\ lastClick = "idle"
PayIdle ==
  payDialog = "idle" /\ payPending = "idle" /\ newRequests = 0 /\ sendLog = <<>>
TimerIdle  == current = "idle" /\ total = "idle" /\ ticks = 0
LaterIdle  == RulesIdle /\ DashIdle /\ ConfigIdle /\ ClockIdle /\ PayIdle /\ TimerIdle

(***************************************************************************)
(* Bounds                                                                  *)
(***************************************************************************)
MaxCalls   == 2   \* handler invocations per behaviour
MaxRetries == 2   \* requests one getAccountURL chain may send
MaxAppts   == 2   \* appointment documents of the user
MaxSlots   == 2   \* timeslots in the user's stored availability
MaxViews   == 3   \* Snackbar.view calls per behaviour
MaxListens == 2   \* Data.listen calls per behaviour
MaxLive    == 1   \* live snapshots delivered to one listener
MaxQueries == 2   \* Dashboard.viewCards calls on one list
MaxTime    == 2   \* latest timestamp of a document or card
MaxPriority == 2  \* highest card priority
MaxDialogs == 2   \* clicks on a location card's delete action
MaxClicks  == 3   \* clicks on the appointment dialog's floating button
MaxTicks   == 360100  \* calls of update: past the first carry into hours
MaxSends   == 5   \* send clicks and PayPal approvals in a paid request dialog

(***************************************************************************)
(* REST response bodies.  A string body is a sequence of tokens; the       *)
(* character offset of a token is the sum of the lengths before it.        *)
(***************************************************************************)
TokLen(t) ==
  CASE t = "["       -> 1
    [] t = "ERROR"   -> 5
    [] t = "] "      -> 2
    [] t = "SUCCESS" -> 7
    [] OTHER         -> 4      \* "Oops"

RECURSIVE Offset(_, _)
\* Number of characters of s before position k.
Offset(s, k) == IF k <= 1 THEN 0 ELSE Offset(s, k - 1) + TokLen(s[k - 1])

\* String.prototype.indexOf for the token tok: -1 when absent.
IndexOf(s, tok) ==
  IF \E k \in 1..Len(s) : s[k] = tok
  THEN LET first == CHOOSE k \in 1..Len(s) :
                      s[k] = tok /\ \A j \in 1..(k - 1) : s[j] # tok
       IN  Offset(s, first)
  ELSE -1

\* res.data.replace('[ERROR] ', ''): drops the first '[ERROR] ' of the body.
ReplaceErrorTag(s) ==
  IF \E k \in 1..(Len(s) - 2) : s[k] = "[" /\ s[k + 1] = "ERROR" /\ s[k + 2] = "] "
  THEN LET k == CHOOSE k \in 1..(Len(s) - 2) :
                  /\ s[k] = "[" /\ s[k + 1] = "ERROR" /\ s[k + 2] = "] "
                  /\ \A j \in 1..(k - 1) :
                       ~(s[j] = "[" /\ s[j + 1] = "ERROR" /\ s[j + 2] = "] ")
       IN  SubSeq(s, 1, k - 1) \o SubSeq(s, k + 3, Len(s))
  ELSE s

StringBody(toks) == [isString |-> TRUE, toks |-> toks]
ObjectBody == [isString |-> FALSE, toks |-> <<>>]

Bodies ==
  { StringBody(<<"SUCCESS">>),
    StringBody(<<"ERROR">>),
    StringBody(<<"ERROR", "Oops">>),
    StringBody(<<"[", "ERROR", "] ", "Oops">>),
    StringBody(<<"Oops", "ERROR">>),
    ObjectBody }

\* What axios settles with: a network error, or a response carrying a body.
Outcomes == {[kind |-> "network", data |-> ObjectBody]}
            \cup {[kind |-> "body", data |-> b] : b \in Bodies}

NoResult == [status |-> "none", value |-> <<>>]

\* The .then handler of Data.post.
PostThen(data) ==
  IF data.isString /\ IndexOf(data.toks, "ERROR") > 0
  THEN [status |-> "rejected", value |-> ReplaceErrorTag(data.toks)]
  ELSE [status |-> "resolved", value |-> data.toks]

\* The promise returned by Data.post once axios has settled with outcome o:
\* .then on a response, .catch rethrows whatever was thrown.
Post(o) ==
  IF o.kind = "network"
  THEN [status |-> "rejected", value |-> <<"Network Error">>]
  ELSE PostThen(o.data)

\* Data.post when getIdToken(true) rejects: no request is made.
PostTokenFailed == [status |-> "rejected", value |-> <<"Token Error">>]

(***************************************************************************)
(* REST: the UI handlers that call a Data REST wrapper, and                *)
(* Payments.initStripe.                                                    *)
(***************************************************************************)
\* The Data wrappers the handlers call; each is Data.post(<name>, ...).
RestActions == {"approveRequest", "modifyRequest", "newRequest", "modifyAppt",
                "clockIn", "clockOut", "requestPaymentFor", "deleteLocation"}

\* Handlers that wrap the call in to(...) and test err.
Catches(a) == a \in {"requestPaymentFor", "deleteLocation"}

SuccessMsg(a) ==
  CASE a = "approveRequest"    -> "Approved request."
    [] a = "modifyRequest"     -> "Request updated."
    [] a = "newRequest"        -> "Request sent to ..."
    [] a = "modifyAppt"        -> "Modified window.app.intment."
    [] a = "clockIn"           -> "Sent clock in request."
    [] a = "clockOut"          -> "Sent clock out request."
    [] a = "requestPaymentFor" -> "Sent payment request to ..."
    [] a = "deleteLocation"    -> "Deleted location."
    [] OTHER                   -> "none"

ErrorMsg(a) ==
  CASE a = "requestPaymentFor" -> "Could not send payment request."
    [] a = "deleteLocation"    -> "Could not delete location."
    [] OTHER                   -> "none"

SuccessMsgs == {SuccessMsg(a) : a \in RestActions}
ErrorMsgs   == {ErrorMsg(a) : a \in {b \in RestActions : Catches(b)}}

\* Snackbars a handler shows before it calls the wrapper.
Before(a) == IF a = "deleteLocation" THEN <<"Deleting location...">> ELSE <<>>

\* Snackbars a handler shows once the wrapper's promise has settled with r.
\* A handler without to(...) ends in an unhandled rejection: nothing runs.
Continuation(a, r) ==
  IF r.status = "rejected"
  THEN IF Catches(a) THEN <<ErrorMsg(a)>> ELSE <<>>
  ELSE <<SuccessMsg(a)>>

AfterFailureRetry(a) == "timer"

\* Where a caller goes after its request failed: getAccountURL's catch
\* schedules itself again, Data.post's catch rethrows.
AfterFailure(a) == IF a = "accountURL" THEN "timer" ELSE "done"

NewCall(a, pc) ==
  [action |-> a, pc |-> pc, requests |-> 0, failures |-> 0,
   result |-> NoResult, outcome |-> "none", snacks |-> Before(a)]

RestInit == calls = <<>> /\ accountURL = "none"

\* A REST step leaves the other components alone.
RestFrame == UNCHANGED <<userVars, availVars, snackVars, listenVars, laterVars>>

\* A click (or a confirmed dialog) runs a handler, which calls Data.post;
\* post first awaits getIdToken(true).
UserAction(a) ==
  /\ Len(calls) < MaxCalls
  /\ calls' = Append(calls, NewCall(a, "token"))
  /\ UNCHANGED accountURL
  /\ RestFrame

\* getIdToken resolved: axios sends the request.
TokenResolved(i) ==
  /\ i \in DOMAIN calls
  /\ calls[i].pc = "token"
  /\ calls' = [calls EXCEPT ![i].pc = "sent", ![i].requests = @ + 1]
  /\ UNCHANGED accountURL
  /\ RestFrame

\* getIdToken rejected: post rejects without a request; the handler resumes.
TokenRejected(i) ==
  /\ i \in DOMAIN calls
  /\ calls[i].pc = "token"
  /\ calls' = [calls EXCEPT
       ![i].pc = AfterFailure(calls[i].action),
       ![i].failures = @ + 1,
       ![i].result = PostTokenFailed,
       ![i].outcome = "token",
       ![i].snacks = @ \o Continuation(calls[i].action, PostTokenFailed)]
  /\ UNCHANGED accountURL
  /\ RestFrame

\* axios settled with o: post's then/catch run, then the handler resumes.
Respond(i, o) ==
  /\ i \in DOMAIN calls
  /\ calls[i].pc = "sent"
  /\ calls[i].action \in RestActions
  /\ LET r == Post(o)
     IN  calls' = [calls EXCEPT
           ![i].pc = IF r.status = "rejected"
                     THEN AfterFailure(calls[i].action) ELSE "done",
           ![i].failures = IF r.status = "rejected" THEN @ + 1 ELSE @,
           ![i].result = r,
           ![i].outcome = IF o.kind = "network" THEN "network"
                          ELSE IF o.data.isString /\ IndexOf(o.data.toks, "ERROR") >= 0
                               THEN "sentinel" ELSE "clean",
           ![i].snacks = @ \o Continuation(calls[i].action, r)]
  /\ UNCHANGED accountURL
  /\ RestFrame

\* Payments.initStripe: awaits the user's stripeAccounts document.
InitStripe ==
  /\ Len(calls) < MaxCalls
  /\ calls' = Append(calls, NewCall("accountURL", "firestore"))
  /\ UNCHANGED accountURL
  /\ RestFrame

\* The document arrived.  needsSetup: showPayments, no document and not
\* redirected from Stripe - the setup card is shown and initStripe returns.
\* Otherwise getAccountURL() sends the first request.
StripeDoc(i, needsSetup) ==
  /\ i \in DOMAIN calls
  /\ calls[i].pc = "firestore"
  /\ calls' = IF needsSetup
              THEN [calls EXCEPT ![i].pc = "done"]
              ELSE [calls EXCEPT ![i].pc = "sent", ![i].requests = @ + 1]
  /\ UNCHANGED accountURL
  /\ RestFrame

\* The accountURL request settled: then stores the url, catch sets a timer.
StripeRespond(i, ok) ==
  /\ i \in DOMAIN calls
  /\ calls[i].pc = "sent"
  /\ calls[i].action = "accountURL"
  /\ IF ok
     THEN /\ accountURL' = "url"
          /\ calls' = [calls EXCEPT ![i].pc = "done", ![i].outcome = "clean",
                                    ![i].result = [status |-> "resolved", value |-> <<>>]]
     ELSE /\ accountURL' = accountURL
          /\ calls' = [calls EXCEPT ![i].pc = AfterFailure(calls[i].action),
                                    ![i].failures = @ + 1,
                                    ![i].outcome = "network"]
  /\ RestFrame

\* setTimeout(getAccountURL, 5000) fired: the request is sent again.
RetryTimer(i) ==
  /\ i \in DOMAIN calls
  /\ calls[i].pc = "timer"
  /\ calls[i].requests < MaxRetries
  /\ calls' = [calls EXCEPT ![i].pc = "sent", ![i].requests = @ + 1]
  /\ UNCHANGED accountURL
  /\ RestFrame

Next ==
  \/ \E a \in RestActions : UserAction(a)
  \/ \E i \in 1..MaxCalls : TokenResolved(i)
  \/ \E i \in 1..MaxCalls : TokenRejected(i)
  \/ \E i \in 1..MaxCalls : \E o \in Outcomes : Respond(i, o)
  \/ InitStripe
  \/ \E i \in 1..MaxCalls : \E b \in BOOLEAN : StripeDoc(i, b)
  \/ \E i \in 1..MaxCalls : \E ok \in BOOLEAN : StripeRespond(i, ok)
  \/ \E i \in 1..MaxCalls : RetryTimer(i)

Init == RestInit /\ UserIdle /\ AvailIdle /\ SnackIdle /\ ListenIdle /\ LaterIdle
Spec == Init /\ [][Next]_vars

\* The body carries the error sentinel.
CarriesSentinel(o) ==
  o.kind = "body" /\ o.data.isString /\ IndexOf(o.data.toks, "ERROR") >= 0

Settled(c) == c.result.status # "none"

\* C1: Data.post rejects whenever the response body is a string carrying
\* 'ERROR' (also a body that is exactly 'ERROR' or starts with it), and
\* resolves only when the body carries no sentinel.
C1_PostRejectsOnSentinel ==
  \A i \in DOMAIN calls :
    (calls[i].action \in RestActions /\ Settled(calls[i])) =>
      /\ calls[i].outcome = "sentinel" => calls[i].result.status = "rejected"
      /\ calls[i].result.status = "resolved" => calls[i].outcome = "clean"

\* C4: whenever a handler's REST call failed, the handler has shown an
\* error snackbar.
C4_FailureShowsErrorSnackbar ==
  \A i \in DOMAIN calls :
    (calls[i].action \in RestActions /\ calls[i].result.status = "rejected") =>
      \E k \in DOMAIN calls[i].snacks : calls[i].snacks[k] \in ErrorMsgs

\* C5 as stated: once a call has failed, no further request is sent for it;
\* a further request only comes with a new handler invocation.
C5_NoAutomaticRetry ==
  [][\A i \in DOMAIN calls :
       calls[i].failures > 0 => calls'[i].requests = calls[i].requests]_vars

\* C5 amended: a failed Data.post call is never re-issued; the Stripe
\* account-URL fetch is re-issued, by its timer, once per failure.
C5_OnlyStripeRetries ==
  [][\A i \in DOMAIN calls :
       /\ (calls[i].failures > 0 /\ calls[i].action # "accountURL")
            => calls'[i].requests = calls[i].requests
       /\ (calls[i].failures > 0 /\ calls'[i].requests # calls[i].requests)
            => /\ calls[i].pc = "timer"
               /\ calls'[i].requests = calls[i].failures + 1]_vars

C5_Witness ==
  /\ \E i \in DOMAIN calls :
       calls[i].action \in RestActions /\ calls[i].failures = 1 /\ calls[i].pc = "done"
  /\ \E i \in DOMAIN calls :
       calls[i].action = "accountURL" /\ calls[i].requests = 2

\* C6: a success snackbar is shown only for a call whose REST call succeeded,
\* and one delete-location attempt shows at most one of its two outcomes.
C6_SuccessOnlyAfterSuccess ==
  \A i \in DOMAIN calls :
    /\ (\E k \in DOMAIN calls[i].snacks : calls[i].snacks[k] \in SuccessMsgs)
         => calls[i].outcome = "clean"
    /\ Cardinality({k \in DOMAIN calls[i].snacks :
         calls[i].snacks[k] \in {"Deleted location.", "Could not delete location."}}) <= 1

(***************************************************************************)
(* USER: Data.getUser, deleteUser, createUser and updateUser.              *)
(* An id is a sequence of characters; <<>> stands for every falsy id       *)
(* (undefined, null, '').  A document is [col, id, data].                  *)
(***************************************************************************)
NoId == <<>>
Ids == {NoId, <<"u", "1">>, <<"u", "2">>, <<"a", "@", "x">>, <<"@", "x">>}

\* id.indexOf(ch): the position (from 0) of the first ch, -1 when absent.
IdIndexOf(id, ch) ==
  IF \E k \in 1..Len(id) : id[k] = ch
  THEN (CHOOSE k \in 1..Len(id) : id[k] = ch /\ \A j \in 1..(k - 1) : id[j] # ch) - 1
  ELSE -1

IsEmailIdStrict(id) == IdIndexOf(id, "@") > 0

\* id.indexOf('@') >= 0
IsEmailId(id) == IdIndexOf(id, "@") >= 0

\* The user objects handed to createUser / updateUser.  defined = FALSE is
\* an undefined user; hasAvailability: user.availability is an object.
Users ==
  [defined : BOOLEAN, id : {NoId, <<"u", "1">>, <<"a", "@", "x">>},
   uid : {NoId, <<"u", "1">>}, email : {NoId, <<"a", "@", "x">>},
   hasAvailability : BOOLEAN, name : {"n3"}]

NoUser == [defined |-> FALSE, id |-> NoId, uid |-> NoId, email |-> NoId,
           hasAvailability |-> FALSE, name |-> "n3"]

\* window.app.user as far as createUser reads it.
AppUsers == [type : {"Supervisor", "Tutor"}, id : {<<"u", "1">>, <<"s", "1">>}]

Doc(col, id, data) == [col |-> col, id |-> id, data |-> data]
HasDoc(d, col, id) == \E x \in d : x.col = col /\ x.id = id
DocData(d, col, id) == (CHOOSE x \in d : x.col = col /\ x.id = id).data
\* DocumentReference.set / .delete
SetDoc(d, col, id, data) == {x \in d : ~(x.col = col /\ x.id = id)} \cup {Doc(col, id, data)}
DeleteDoc(d, col, id) == {x \in d : ~(x.col = col /\ x.id = id)}

\* What a call did: whether it threw (or rejected), how many document
\* reads, document writes and REST calls it issued, what it returned and
\* the database it left.
Effect(throws, reads, writes, rest, value, d) ==
  [throws |-> throws, reads |-> reads, writes |-> writes, rest |-> rest,
   value |-> value, db |-> d]

GetUser(id, d) ==
  IF id = NoId THEN Effect(TRUE, 0, 0, 0, "none", d)
  ELSE IF IsEmailId(id) THEN Effect(TRUE, 0, 0, 0, "none", d)
  ELSE IF HasDoc(d, "users", id)
       THEN Effect(FALSE, 1, 0, 0, DocData(d, "users", id), d)
       ELSE Effect(TRUE, 1, 0, 0, "none", d)

DeleteUser(id, d) ==
  IF id = NoId THEN Effect(TRUE, 0, 0, 0, "none", d)
  ELSE IF IsEmailId(id) THEN Effect(TRUE, 0, 0, 0, "none", d)
  ELSE Effect(FALSE, 0, 1, 0, "none", DeleteDoc(d, "users", id))

CreateUser(user, app, d) ==
  IF ~user.defined THEN Effect(TRUE, 0, 0, 0, "none", d)
  ELSE IF user.id = NoId /\ user.uid = NoId /\ user.email = NoId
       THEN Effect(TRUE, 0, 0, 0, "none", d)
  ELSE IF user.uid # NoId
       THEN Effect(FALSE, 0, 1, 0, "none", SetDoc(d, "users", user.uid, user.name))
  ELSE IF app.type = "Supervisor" /\ app.id # user.id
       THEN Effect(FALSE, 0, 0, 1, "none", d)          \* Data.post('createProxyUser')
  ELSE Effect(FALSE, 0, 1, 0, "none",
              SetDoc(d, "usersByEmail",
                     IF user.id # NoId THEN user.id ELSE user.email, user.name))

UpdateUserByEmail(user, d) ==
  IF ~user.defined THEN Effect(TRUE, 0, 0, 0, "none", d)
  ELSE IF user.uid # NoId
       THEN IF HasDoc(d, "users", user.uid)
            THEN Effect(FALSE, 1, 1, 0, "none", SetDoc(d, "users", user.uid, user.name))
            ELSE Effect(TRUE, 1, 1, 0, "none", d)
  ELSE IF ~user.hasAvailability THEN Effect(TRUE, 0, 0, 0, "none", d)
  ELSE IF user.id = NoId /\ user.email = NoId THEN Effect(TRUE, 0, 0, 0, "none", d)
  ELSE Effect(FALSE, 0, 1, 0, "none",
              SetDoc(d, "usersByEmail",
                     IF user.id # NoId THEN user.id ELSE user.email, user.name))

\* updateUser: updateUserAvailability (reads the appointments when there is
\* a uid and sets user.availability; a TypeError on an undefined user),
\* updateUserLocation (a TypeError when user.availability is not an
\* object), then the checks.  DocumentReference.update rejects when the
\* document does not exist.
UpdateUser(user, d) ==
  IF ~user.defined THEN Effect(TRUE, 0, 0, 0, "none", d)
  ELSE IF user.uid # NoId
       THEN IF HasDoc(d, "users", user.uid)
            THEN Effect(FALSE, 1, 1, 0, "none", SetDoc(d, "users", user.uid, user.name))
            ELSE Effect(TRUE, 1, 1, 0, "none", d)
  ELSE IF ~user.hasAvailability THEN Effect(TRUE, 0, 0, 0, "none", d)
  ELSE Effect(TRUE, 0, 0, 0, "none", d)

UserFrame == UNCHANGED <<restVars, availVars, snackVars, listenVars, laterVars>>

NoOp == [op |-> "none", id |-> NoId, user |-> NoUser, app |-> "none", before |-> {},
         throws |-> FALSE, reads |-> 0, writes |-> 0, rest |-> 0, value |-> "none"]

\* One call: lastOp records the call, what it did and the database it found.
Logged(op, id, user, app, e) ==
  /\ lastOp' = [op |-> op, id |-> id, user |-> user, app |-> app, before |-> db,
                throws |-> e.throws, reads |-> e.reads,
                writes |-> e.writes, rest |-> e.rest, value |-> e.value]
  /\ db' = e.db
  /\ UserFrame

CallGetUser(id)         == Logged("getUser", id, NoUser, "none", GetUser(id, db))
CallDeleteUser(id)      == Logged("deleteUser", id, NoUser, "none", DeleteUser(id, db))
CallCreateUser(user, a) == Logged("createUser", NoId, user, a.type, CreateUser(user, a, db))
CallUpdateUser(user)    == Logged("updateUser", NoId, user, "none", UpdateUser(user, db))

UserInit ==
  /\ db \in SUBSET {Doc("users", <<"u", "1">>, "n1"), Doc("users", <<"u", "2">>, "n2")}
  /\ lastOp = NoOp

UserNext ==
  \/ \E id \in Ids : CallGetUser(id)
  \/ \E id \in Ids : CallDeleteUser(id)
  \/ \E user \in Users : \E a \in AppUsers : CallCreateUser(user, a)
  \/ \E user \in Users : CallUpdateUser(user)

InitUser == UserInit /\ RestIdle /\ AvailIdle /\ SnackIdle /\ ListenIdle /\ LaterIdle
SpecUser == InitUser /\ [][UserNext]_vars

BadId(id) == id = NoId \/ \E k \in 1..Len(id) : id[k] = "@"

\* C2: getUser and deleteUser throw without any database read or write
\* when the id is missing or contains '@'; getUser also throws when the
\* document does not exist and otherwise returns the document's data.
C2_GetDeleteRejectBadIds ==
  LET o == lastOp IN
  /\ (o.op \in {"getUser", "deleteUser"} /\ BadId(o.id))
       => (o.throws /\ o.reads = 0 /\ o.writes = 0 /\ db = o.before)
  /\ (o.op = "getUser" /\ ~BadId(o.id))
       => /\ o.throws <=> ~(\E x \in o.before : x.col = "users" /\ x.id = o.id)
          /\ ~o.throws => \E x \in o.before :
                            x.col = "users" /\ x.id = o.id /\ x.data = o.value

\* getUser was called with an id that starts with '@' while a user document
\* written by createUser is in the database.
C2_Witness ==
  /\ lastOp.op = "getUser" /\ lastOp.id = <<"@", "x">> /\ lastOp.throws
  /\ \E x \in db : x.col = "users" /\ x.data = "n3"

NoUid(u) == ~u.defined \/ u.uid = NoId

Locs  == {"L1", "L2"}
Days  == {"Mon", "Tue"}
\* <<from, to>> of an appointment, <<open, close>> of a timeslot.
Spans == {<<"t1", "t2">>, <<"t1", "t3">>}

EmptyMap == [k \in {} |-> {}]
Put(m, k, v) == [x \in (DOMAIN m) \cup {k} |-> IF x = k THEN v ELSE m[x]]

\* The data of an appointment document.
Appts == [location : [name : Locs], time : [day : Days, from : {"t1"}, to : {"t2", "t3"}]]

Slot(open, close, booked) == [open |-> open, close |-> close, booked |-> booked]

\* list.findIndex((t) => t.open === open && t.close === close), from 0.
FindIndex(list, open, close) ==
  IF \E k \in 1..Len(list) : list[k].open = open /\ list[k].close = close
  THEN (CHOOSE k \in 1..Len(list) :
          /\ list[k].open = open /\ list[k].close = close
          /\ \A j \in 1..(k - 1) : ~(list[j].open = open /\ list[j].close = close)) - 1
  ELSE -1

\* if (!m[k]) m[k] = empty
Ensure(m, k, empty) == IF k \in DOMAIN m THEN m ELSE Put(m, k, empty)

RECURSIVE AddAppts(_, _, _)
\* The appts.forEach loop, from appointment k on.
AddAppts(booked, appts, k) ==
  IF k > Len(appts) THEN booked
  ELSE LET appt == appts[k]
           loc  == appt.location.name
           day  == appt.time.day
           b1   == Ensure(booked, loc, EmptyMap)
           b2   == Put(b1, loc, Ensure(b1[loc], day, <<>>))
           b3   == IF FindIndex(b2[loc][day], appt.time.from, appt.time.to) >= 0
                   THEN b2
                   ELSE Put(b2, loc, Put(b2[loc], day,
                          Append(b2[loc][day],
                                 Slot(appt.time.from, appt.time.to, TRUE))))
       IN  AddAppts(b3, appts, k + 1)

RECURSIVE AddTimeslotsKeepBooked(_, _, _)
AddTimeslotsKeepBooked(list, slots, k) ==
  IF k > Len(slots) THEN list
  ELSE AddTimeslotsKeepBooked(
         IF FindIndex(list, slots[k].open, slots[k].close) < 0
         THEN Append(list, slots[k])
         ELSE list,
         slots, k + 1)

RECURSIVE AddTimeslots(_, _, _)
\* The day[1].forEach loop over the timeslots of one day, from slot k on.
AddTimeslots(list, slots, k) ==
  IF k > Len(slots) THEN list
  ELSE AddTimeslots(
         IF FindIndex(list, slots[k].open, slots[k].close) < 0
         THEN Append(list, Slot(slots[k].open, slots[k].close, FALSE))
         ELSE list,
         slots, k + 1)

RECURSIVE AddDays(_, _, _)
\* The Object.entries(loc[1]).forEach loop over the days still in todo.
AddDays(days, old, todo) ==
  IF todo = {} THEN days
  ELSE LET day == CHOOSE d \in todo : TRUE
           d1  == Ensure(days, day, <<>>)
       IN  AddDays(Put(d1, day, AddTimeslots(d1[day], old[day], 1)),
                   old, todo \ {day})

RECURSIVE AddLocations(_, _, _)
\* The Object.entries(user.availability || {}).forEach loop.
AddLocations(booked, old, todo) ==
  IF todo = {} THEN booked
  ELSE LET loc == CHOOSE l \in todo : TRUE
           b1  == Ensure(booked, loc, EmptyMap)
       IN  AddLocations(Put(b1, loc, AddDays(b1[loc], old[loc], DOMAIN old[loc])),
                        old, todo \ {loc})

\* The availability updateUserAvailability assigns to a user with a uid.
BookedAvailability(user, appts) ==
  AddLocations(AddAppts(EmptyMap, appts, 1), user.availability,
               DOMAIN user.availability)

\* The stored availability: timeslots entered one by one.
SlotEntries == [loc : Locs, day : Days, span : Spans]

RECURSIVE BuildAvailability(_, _, _)
BuildAvailability(entries, k, stale) ==
  IF k = 0 THEN EmptyMap
  ELSE LET m   == BuildAvailability(entries, k - 1, stale)
           e   == entries[k]
           m1  == Ensure(m, e.loc, EmptyMap)
           d1  == Ensure(m1[e.loc], e.day, <<>>)
       IN  Put(m1, e.loc,
               Put(d1, e.day, Append(d1[e.day], Slot(e.span[1], e.span[2], stale))))

SeqsUpTo(S, n) == UNION {[1..k -> S] : k \in 0..n}

AvailFrame == UNCHANGED <<restVars, userVars, snackVars, listenVars, laterVars>>

AvailInit ==
  /\ avAppts \in SeqsUpTo(Appts, MaxAppts)
  /\ \E entries \in SeqsUpTo(SlotEntries, MaxSlots) : \E stale \in BOOLEAN :
       \E uid \in {NoId, <<"u", "1">>} :
         avUser = [uid |-> uid,
                   availability |-> BuildAvailability(entries, Len(entries), stale)]
  /\ avDone = FALSE

\* Data.updateUserAvailability(user): without a uid it warns and returns;
\* otherwise it reads the appointments and replaces user.availability.
UpdateUserAvailability ==
  /\ ~avDone
  /\ avDone' = TRUE
  /\ avUser' = IF avUser.uid = NoId THEN avUser
               ELSE [avUser EXCEPT !.availability = BookedAvailability(avUser, avAppts)]
  /\ UNCHANGED avAppts
  /\ AvailFrame

\* A new appointment document is written for the user (by the backend).
NewAppointment(appt) ==
  /\ avDone
  /\ Len(avAppts) < MaxAppts
  /\ avAppts' = Append(avAppts, appt)
  /\ avDone' = FALSE
  /\ UNCHANGED avUser
  /\ AvailFrame

AvailNext ==
  \/ UpdateUserAvailability
  \/ \E appt \in Appts : NewAppointment(appt)

InitAvail == AvailInit /\ RestIdle /\ UserIdle /\ SnackIdle /\ ListenIdle /\ LaterIdle
SpecAvail == InitAvail /\ [][AvailNext]_vars

HasAppt(loc, day, open, close) ==
  \E k \in DOMAIN avAppts :
    /\ avAppts[k].location.name = loc /\ avAppts[k].time.day = day
    /\ avAppts[k].time.from = open /\ avAppts[k].time.to = close

TickMs == 50

\* Messages as token sequences; the last token is the message's ending.
Messages == {<<"Saved", ".">>, <<"Saving", "...">>}

\* message.endsWith('...')
EndsWithEllipsis(message) == Len(message) > 0 /\ message[Len(message)] = "..."

\* The timeout argument: not given, or a number of milliseconds.
NoTimeout == [given |-> FALSE, ms |-> 0]
TimeoutArgs == {NoTimeout, [given |-> TRUE, ms |-> 4000]}

DefaultTimeout == 5000

TimeoutMsIgnoringMessage(message, timeout) ==
  IF timeout.given THEN timeout.ms ELSE DefaultTimeout

\* snackbar.timeoutMs = message.endsWith('...') ? -1 : timeout, with the
\* parameter default timeout = 5000.
TimeoutMs(message, timeout) ==
  IF EndsWithEllipsis(message) THEN -1
  ELSE IF timeout.given THEN timeout.ms ELSE DefaultTimeout

DelaysShowFirst(branch) ==
  IF branch = "opening" THEN [c |-> 100, r |-> 250, v |-> 200]
  ELSE [c |-> 0, r |-> 150, v |-> 100]

\* The setTimeout delays of the steps c, r and v in the two branches
\* (c runs at once in the open branch).
Delays(branch) ==
  IF branch = "opening" THEN [c |-> 100, r |-> 200, v |-> 250]
  ELSE [c |-> 0, r |-> 100, v |-> 150]

\* MDCSnackbar's opening and closing animation times.
OpenAnimationMs  == 150
CloseAnimationMs == 75

Ticks(ms) == (ms + TickMs - 1) \div TickMs

Timer(fn, view, ms) == [fn |-> fn, view |-> view, left |-> Ticks(ms)]

\* $('.mdc-snackbar--opening').length, $('.mdc-snackbar--open').length
AnyOpening == \E k \in DOMAIN bars : bars[k].opening
AnyOpen    == \E k \in DOMAIN bars : bars[k].open

\* c: animate the open snackbars closed.
StepC(bs) ==
  [k \in DOMAIN bs |->
     IF bs[k].open THEN [bs[k] EXCEPT !.open = FALSE, !.closing = TRUE] ELSE bs[k]]

\* v: render the element, make its MDCSnackbar, prepend it and open() it.
StepV(bs, view, message, timeout) ==
  <<[view |-> view, opening |-> TRUE, open |-> FALSE, closing |-> FALSE,
     armed |-> FALSE, timeoutMs |-> TimeoutMs(message, timeout)]>> \o bs

\* Timers of the MDCSnackbars of elements that are in the container.
Attached(ts, bs) ==
  {t \in ts : t.fn \in {"c", "r", "v"} \/ \E k \in DOMAIN bs : bs[k].view = t.view}

Did(view, step) == [views EXCEPT ![view].steps = Append(@, step)]

SnackFrame == UNCHANGED <<restVars, userVars, availVars, listenVars, laterVars>>

SnackInit == bars = <<>> /\ timers = {} /\ views = <<>>

\* Snackbar.view(message, label, action, showClose, timeout)
View(message, timeout) ==
  /\ Len(views) < MaxViews
  /\ LET i == Len(views) + 1
         call(branch, steps) == [message |-> message, timeout |-> timeout,
                                 branch |-> branch, steps |-> steps]
     IN  IF AnyOpening
         THEN /\ views' = Append(views, call("opening", <<>>))
              /\ timers' = timers \cup {Timer("c", i, Delays("opening").c),
                                        Timer("r", i, Delays("opening").r),
                                        Timer("v", i, Delays("opening").v)}
              /\ UNCHANGED bars
         ELSE IF AnyOpen
         THEN /\ views' = Append(views, call("open", <<"c">>))
              /\ bars' = StepC(bars)
              /\ timers' = timers \cup {Timer("r", i, Delays("open").r),
                                        Timer("v", i, Delays("open").v)}
         ELSE /\ views' = Append(views, call("none", <<"v">>))
              /\ bars' = StepV(bars, i, message, timeout)
              /\ timers' = timers \cup {Timer("frame", i, 0)}
  /\ SnackFrame

\* Time passes while no pending timer is due.
Tick ==
  /\ timers # {}
  /\ \A t \in timers : t.left > 0
  /\ timers' = {[t EXCEPT !.left = @ - 1] : t \in timers}
  /\ UNCHANGED <<bars, views>>
  /\ SnackFrame

FireC(t) ==
  /\ t \in timers
  /\ bars' = StepC(bars)
  /\ timers' = timers \ {t}
  /\ views' = Did(t.view, "c")
  /\ SnackFrame

\* r: $('body #snackbars').empty()
FireR(t) ==
  /\ t \in timers
  /\ bars' = <<>>
  /\ timers' = Attached(timers \ {t}, <<>>)
  /\ views' = Did(t.view, "r")
  /\ SnackFrame

FireV(t) ==
  /\ t \in timers
  /\ bars' = StepV(bars, t.view, views[t.view].message, views[t.view].timeout)
  /\ timers' = (timers \ {t}) \cup {Timer("frame", t.view, 0)}
  /\ views' = Did(t.view, "v")
  /\ SnackFrame

BarOf(view) == CHOOSE k \in DOMAIN bars : bars[k].view = view

\* MDCSnackbar.open(), next animation frame: the open class is added and
\* the opening animation timer started.
Frame(t) ==
  /\ t \in timers
  /\ bars' = [bars EXCEPT ![BarOf(t.view)].open = TRUE]
  /\ timers' = (timers \ {t}) \cup {Timer("opened", t.view, OpenAnimationMs)}
  /\ UNCHANGED views
  /\ SnackFrame

\* The opening animation ended: the animation classes are removed and the
\* automatic close is armed when timeoutMs is not -1.
Opened(t) ==
  /\ t \in timers
  /\ bars' = [bars EXCEPT ![BarOf(t.view)] =
       [@ EXCEPT !.opening = FALSE, !.closing = FALSE,
                 !.armed = (bars[BarOf(t.view)].timeoutMs # -1)]]
  /\ timers' = timers \ {t}
  /\ UNCHANGED views
  /\ SnackFrame

\* timeoutMs after it opened, the MDCSnackbar closes itself.
AutoDismiss(k) ==
  /\ k \in DOMAIN bars
  /\ bars[k].armed
  /\ bars' = [bars EXCEPT ![k] =
       [@ EXCEPT !.armed = FALSE, !.open = FALSE, !.opening = FALSE, !.closing = TRUE]]
  /\ timers' = timers \cup {Timer("closed", bars[k].view, CloseAnimationMs)}
  /\ UNCHANGED views
  /\ SnackFrame

\* 'MDCSnackbar:closed': $(el).remove()
Closed(t) ==
  /\ t \in timers
  /\ bars' = SelectSeq(bars, LAMBDA b : b.view # t.view)
  /\ timers' = timers \ {t}
  /\ UNCHANGED views
  /\ SnackFrame

\* The timer fn of a view call when it is due.
Due(fn, view) == [fn |-> fn, view |-> view, left |-> 0]

SnackNext ==
  \/ \E m \in Messages : \E timeout \in TimeoutArgs : View(m, timeout)
  \/ Tick
  \/ \E i \in 1..MaxViews : FireC(Due("c", i))
  \/ \E i \in 1..MaxViews : FireR(Due("r", i))
  \/ \E i \in 1..MaxViews : FireV(Due("v", i))
  \/ \E i \in 1..MaxViews : Frame(Due("frame", i))
  \/ \E i \in 1..MaxViews : Opened(Due("opened", i))
  \/ \E k \in 1..MaxViews : AutoDismiss(k)
  \/ \E i \in 1..MaxViews : Closed(Due("closed", i))

InitSnack == SnackInit /\ RestIdle /\ UserIdle /\ AvailIdle /\ ListenIdle /\ LaterIdle
SpecSnackbar == InitSnack /\ [][SnackNext]_vars

IsPrefix(a, b) == Len(a) <= Len(b) /\ a = SubSeq(b, 1, Len(a))

Shown(view) == \E k \in DOMAIN bars : bars[k].view = view

\* C8: a Snackbar.view call made while another snackbar is open or opening
\* runs its steps in the order close, remove, show, and its snackbar is
\* never shown before its removal step has run.
C8_CloseRemoveShow ==
  \A i \in DOMAIN views :
    views[i].branch \in {"opening", "open"} =>
      /\ IsPrefix(views[i].steps, <<"c", "r", "v">>)
      /\ Shown(i) => \E k \in DOMAIN views[i].steps : views[i].steps[k] = "r"

\* A call made while a snackbar was opening has shown its own snackbar.
C8_Witness ==
  \E i \in DOMAIN views :
    views[i].branch = "opening" /\ views[i].steps = <<"c", "r", "v">> /\ Shown(i)

HandlerKinds == {"returns", "throws", "resolves", "rejects"}
IsAsync(kind) == kind \in {"resolves", "rejects"}

AwaitsNothing(fetchOk) == FALSE

\* err ? error(err) : await next(snap) - only next's result is awaited.
AwaitsHandler(fetchOk) == fetchOk

ListenFrame == UNCHANGED <<restVars, userVars, availVars, snackVars, laterVars>>

ListenInit == lcalls = <<>> /\ listeners = <<>>

\* The push of ref.onSnapshot({next, error}) by call i.
Push(i) == listeners' = Append(listeners, i)

\* Data.listen(query, next, error): ref.get() is issued.
Listen ==
  /\ Len(lcalls) < MaxListens
  /\ lcalls' = Append(lcalls,
       [pc |-> "fetching", fetches |-> 1, fetchOk |-> FALSE, called |-> "none",
        kind |-> "none", handlerDone |-> FALSE, doneAtPush |-> FALSE, live |-> 0])
  /\ UNCHANGED listeners
  /\ ListenFrame

\* to(ref.get()) settled and the handler is called: next(snap) when ok,
\* error(err) otherwise; kind is how the handler behaves on this call.  A
\* handler that throws ends listen; an awaited async handler suspends it;
\* otherwise listen goes on to push the live listener in the same run.
Fetched(i, ok, kind) ==
  /\ i \in DOMAIN lcalls
  /\ lcalls[i].pc = "fetching"
  /\ LET c1 == [lcalls[i] EXCEPT !.fetchOk = ok, !.kind = kind,
                                 !.called = IF ok THEN "next" ELSE "error"]
     IN  IF kind = "throws"
         THEN /\ lcalls' = [lcalls EXCEPT ![i] = [c1 EXCEPT !.pc = "rejected"]]
              /\ UNCHANGED listeners
         ELSE IF IsAsync(kind) /\ AwaitsHandler(ok)
         THEN /\ lcalls' = [lcalls EXCEPT ![i] = [c1 EXCEPT !.pc = "awaiting"]]
              /\ UNCHANGED listeners
         ELSE /\ lcalls' = [lcalls EXCEPT ![i] =
                   [c1 EXCEPT !.pc = IF IsAsync(kind) THEN "running" ELSE "registered",
                              !.handlerDone = ~IsAsync(kind),
                              !.doneAtPush = ~IsAsync(kind)]]
              /\ Push(i)
  /\ ListenFrame

\* The awaited promise of an async next settled: listen resumes and pushes
\* the live listener, or rejects.
Resumed(i) ==
  /\ i \in DOMAIN lcalls
  /\ lcalls[i].pc = "awaiting"
  /\ IF lcalls[i].kind = "resolves"
     THEN /\ lcalls' = [lcalls EXCEPT ![i].pc = "registered",
                                      ![i].handlerDone = TRUE,
                                      ![i].doneAtPush = TRUE]
          /\ Push(i)
     ELSE /\ lcalls' = [lcalls EXCEPT ![i].pc = "rejected", ![i].handlerDone = TRUE]
          /\ UNCHANGED listeners
  /\ ListenFrame

\* An async handler that listen did not await has settled.
HandlerSettled(i) ==
  /\ i \in DOMAIN lcalls
  /\ lcalls[i].pc = "running"
  /\ lcalls' = [lcalls EXCEPT ![i].pc = "registered", ![i].handlerDone = TRUE]
  /\ UNCHANGED listeners
  /\ ListenFrame

\* The live listener registered by call i delivers a snapshot to next.
Snapshot(k) ==
  /\ k \in DOMAIN listeners
  /\ lcalls[listeners[k]].live < MaxLive
  /\ lcalls' = [lcalls EXCEPT ![listeners[k]].live = @ + 1]
  /\ UNCHANGED listeners
  /\ ListenFrame

ListenNext ==
  \/ Listen
  \/ \E i \in 1..MaxListens : \E ok \in BOOLEAN : \E kind \in HandlerKinds :
       Fetched(i, ok, kind)
  \/ \E i \in 1..MaxListens : Resumed(i)
  \/ \E i \in 1..MaxListens : HandlerSettled(i)
  \/ \E k \in 1..MaxListens : Snapshot(k)

InitListen == ListenInit /\ RestIdle /\ UserIdle /\ AvailIdle /\ SnackIdle /\ LaterIdle
SpecListen == InitListen /\ [][ListenNext]_vars

Handles(i) == Cardinality({k \in DOMAIN listeners : listeners[k] = i})
Finished(c) == c.pc \in {"registered", "rejected"}

Uids      == {"pupil", "tutor"}
AccessIds == {"root", "district"}
NumFields == {"balance", "secondsPupiled", "secondsTutored", "avgRating",
              "numRatings"}
Fields    == NumFields \cup {"access", "proxy"}
Amounts   == 0..1

\* authedApp(auth): no auth at all, or a uid with its access claim.
NoAuth == [uid |-> "", access |-> {}]
Auths  == {NoAuth} \cup [uid : Uids, access : SUBSET AccessIds]

Datum(fields, access, proxy, num) ==
  [fields |-> fields,
   access |-> IF "access" \in fields THEN access ELSE {},
   proxy  |-> IF "proxy" \in fields THEN proxy ELSE {},
   num    |-> [f \in NumFields |-> IF f \in fields THEN num[f] ELSE 0]]

\* What a client passes to ref.set besides the profile's type: some of the
\* fields with zeros, or all of them with any amounts; the access list is
\* [] or ['root'], and proxy is never set.
SetData ==
  {Datum(fs, a, {}, n) : fs \in SUBSET (Fields \ {"proxy"}),
                         a \in SUBSET {"root"}, n \in [NumFields -> {0}]}
  \cup {Datum(Fields \ {"proxy"}, a, {}, n) :
          a \in SUBSET {"root"}, n \in [NumFields -> Amounts]}

\* What a client passes to ref.update: one field.
UpdateData ==
  {Datum({f}, a, {}, [g \in NumFields |-> n]) :
     f \in Fields \ {"proxy"}, a \in SUBSET AccessIds, n \in Amounts}

\* createProfile(combineMaps(TUTOR, {...})): a full profile, new or earned.
Profiles ==
  {Datum(Fields, a, p, [f \in NumFields |-> n]) :
     a \in SUBSET AccessIds, p \in {{}} \cup {{u} : u \in Uids}, n \in Amounts}

\* ref.update merges the given fields into the stored data.
Merge(old, d) ==
  Datum(old.fields \cup d.fields,
        IF "access" \in d.fields THEN d.access ELSE old.access,
        IF "proxy" \in d.fields THEN d.proxy ELSE old.proxy,
        [f \in NumFields |-> IF f \in d.fields THEN d.num[f] ELSE old.num[f]])

NoDoc == [exists |-> FALSE, uid |-> "", data |-> Datum({}, {}, {}, [f \in NumFields |-> 0])]
Stored(uid, d) == [exists |-> TRUE, uid |-> uid, data |-> d]

AllowCreateAnyUid(auth, uid, d) ==
  /\ auth # NoAuth
  /\ NumFields \subseteq d.fields /\ \A f \in NumFields : d.num[f] = 0
  /\ "access" \in d.fields

\* allow create: signed in as the document's uid, and the document starts
\* with zero balance, hours and ratings and with an access list.
AllowCreate(auth, uid, d) ==
  /\ auth # NoAuth /\ auth.uid = uid
  /\ NumFields \subseteq d.fields /\ \A f \in NumFields : d.num[f] = 0
  /\ "access" \in d.fields

\* The fields a user may not change on their own profile.
Protected == {"access", "numRatings", "avgRating", "secondsTutored", "balance"}

SameField(f, old, new) ==
  /\ (f \in old.fields) = (f \in new.fields)
  /\ f = "access" => old.access = new.access
  /\ f \in NumFields => old.num[f] = new.num[f]

\* allow update: the owner, with every protected field as it is stored.
AllowUpdateAnyField(auth, uid, old, new) == auth # NoAuth /\ auth.uid = uid

AllowUpdate(auth, uid, old, new) ==
  /\ auth # NoAuth /\ auth.uid = uid
  /\ \A f \in Protected : SameField(f, old, new)

\* allow read of users/{uid} (kind "profile") or of a subcollection of it
\* (kind "sub"): the owner; a proxy of the user; for the profile, also a
\* reader whose access claim shares an id with the profile's access.
AllowReadSubByAccess(auth, uid, doc, kind) ==
  /\ auth # NoAuth
  /\ \/ auth.uid = uid
     \/ /\ doc.exists /\ doc.uid = uid
        /\ \/ auth.uid \in doc.data.proxy
           \/ doc.data.access \cap auth.access # {}

AllowRead(auth, uid, doc, kind) ==
  /\ auth # NoAuth
  /\ \/ auth.uid = uid
     \/ /\ doc.exists /\ doc.uid = uid
        /\ \/ auth.uid \in doc.data.proxy
           \/ kind = "profile" /\ doc.data.access \cap auth.access # {}

NoReq == [op |-> "none", auth |-> NoAuth, uid |-> "", data |-> NoDoc.data,
          allowed |-> FALSE, before |-> NoDoc]

Request(op, auth, uid, d, allowed) ==
  [op |-> op, auth |-> auth, uid |-> uid, data |-> d, allowed |-> allowed,
   before |-> rdoc]

RulesInit == rdoc = NoDoc /\ rreq = NoReq

\* A rules step leaves the other components alone.
RulesFrame == UNCHANGED <<coreVars, dashVars, configVars, clockVars, payVars, timerVars>>

\* data(state): an admin write, which the rules do not see; it replaces
\* whatever the cleared emulator held.
Seed(uid, d) ==
  /\ rdoc' = Stored(uid, d)
  /\ rreq' = Request("seed", NoAuth, uid, d, TRUE)
  /\ RulesFrame

\* ref.set(d) on a document that does not exist yet.
Create(auth, uid, d) ==
  /\ ~rdoc.exists
  /\ LET ok == AllowCreate(auth, uid, d) IN
       /\ rdoc' = IF ok THEN Stored(uid, d) ELSE rdoc
       /\ rreq' = Request("create", auth, uid, d, ok)
  /\ RulesFrame

\* ref.update(d): fails on a missing document, else asks the update rule.
Update(auth, uid, d) ==
  /\ LET found == rdoc.exists /\ rdoc.uid = uid
         new   == Merge(rdoc.data, d)
         ok    == found /\ AllowUpdate(auth, uid, rdoc.data, new)
     IN  /\ rdoc' = IF ok THEN Stored(uid, new) ELSE rdoc
         /\ rreq' = Request("update", auth, uid, d, ok)
  /\ RulesFrame

\* ref.get() or ref.collection(subcollection).get().
Get(auth, uid, kind) ==
  /\ rreq' = Request(kind, auth, uid, NoDoc.data, AllowRead(auth, uid, rdoc, kind))
  /\ UNCHANGED rdoc
  /\ RulesFrame

\* The tests that write sign in without an access claim.
Writers == {a \in Auths : a.access = {}}

RulesNext ==
  \/ \E uid \in Uids, d \in Profiles : Seed(uid, d)
  \/ \E auth \in Writers, uid \in Uids, d \in SetData : Create(auth, uid, d)
  \/ \E auth \in Writers, uid \in Uids, d \in UpdateData : Update(auth, uid, d)
  \/ \E auth \in Auths, uid \in Uids, kind \in {"profile", "sub"} :
       Get(auth, uid, kind)

InitRules == RulesInit /\ CoreIdle /\ DashIdle /\ ConfigIdle /\ ClockIdle /\ PayIdle /\ TimerIdle
SpecRules == InitRules /\ [][RulesNext]_vars

StartsFromZero(r) ==
  /\ r.auth # NoAuth /\ r.auth.uid = r.uid
  /\ NumFields \subseteq r.data.fields /\ "access" \in r.data.fields
  /\ \A f \in NumFields : r.data.num[f] = 0

IsProxy(r) ==
  r.before.exists /\ r.before.uid = r.uid /\ r.auth.uid \in r.before.data.proxy
SharesAccess(r) ==
  /\ r.before.exists /\ r.before.uid = r.uid
  /\ r.before.data.access \cap r.auth.access # {}

\* C13: a signed-in user reads another user's profile exactly when the
\* profile's access list shares an id with the reader's access claim or the
\* reader is in the profile's proxy list, and reads another user's
\* subcollections exactly when the reader is in that user's proxy list.
C13_ReadOthersOnlyByAccessOrProxy ==
  (rreq.op \in {"profile", "sub"} /\ rreq.auth # NoAuth /\ rreq.auth.uid # rreq.uid) =>
    /\ rreq.op = "profile" => (rreq.allowed = (SharesAccess(rreq) \/ IsProxy(rreq)))
    /\ rreq.op = "sub" => (rreq.allowed = IsProxy(rreq))
    /\ rdoc = rreq.before

\* A reader in the user's district, but not a proxy, was refused the user's
\* subcollection.
C13_SubDeniedToDistrict ==
  /\ rreq.op = "sub" /\ rreq.auth.uid = "pupil" /\ rreq.uid = "tutor"
  /\ SharesAccess(rreq) /\ ~IsProxy(rreq) /\ ~rreq.allowed

(***************************************************************************)
(* DASH: Dashboard.viewCards and viewCard on one list.  A card element is  *)
(* [id, query, priority, timestamp] (its attributes; timestamp 0 stands    *)
(* for a card without one); a snapshot is a function from the ids of its   *)
(* documents to their timestamps.                                          *)
(***************************************************************************)
DocIds   == {"d1", "d2"}
SetupIds == {"s1"}
Times    == 1..MaxTime

\* Every snapshot a query may deliver.
Snapshots == UNION {[ids -> Times] : ids \in SUBSET DocIds}

\* new Card(true, Utils.genID(), type, 2).el and the like: no timestamp.
SetupCards == [id : SetupIds, query : {0}, priority : 1..MaxPriority,
               timestamp : {0}]

\* new Card(doc, id, type).el, for the query with id q.
DocCard(docId, time, q) ==
  [id |-> docId, query |-> q, priority |-> 1, timestamp |-> time]

Indices(cs, P(_)) == {i \in 1..Len(cs) : P(cs[i])}
Min(S) == CHOOSE x \in S : \A y \in S : x <= y
Max(S) == CHOOSE x \in S : \A y \in S : x >= y

\* jQuery insertBefore / insertAfter the element at index i.
InsertBefore(cs, i, card) == SubSeq(cs, 1, i - 1) \o <<card>> \o SubSeq(cs, i, Len(cs))
InsertAfter(cs, i, card)  == InsertBefore(cs, i + 1, card)

\* $(list).find(selector).remove()
Remove(cs, P(_)) == SelectSeq(cs, LAMBDA c : ~P(c))

\* The body of viewCard when no card has the new card's id.  Among cards of
\* its priority the loop leaves child at the first card with an older
\* timestamp or, when it never breaks, at the last such card.
InsertCard(cs, card) ==
  LET same  == Indices(cs, LAMBDA c : c.priority = card.priority)
      older == {i \in same : cs[i].timestamp # 0 /\ cs[i].timestamp < card.timestamp}
      child == IF older # {} THEN Min(older) ELSE Max(same)
      above == Indices(cs, LAMBDA c : c.priority > card.priority)
  IN  IF same # {}
      THEN InsertBefore(cs, child, card)
      ELSE IF above # {} THEN InsertAfter(cs, Min(above), card)
           ELSE <<card>> \o cs

\* Dashboard.viewCard(card, list): a card with the same id is replaced where
\* it is, otherwise the card is inserted.
ViewCardOn(cs, card) ==
  IF \E i \in 1..Len(cs) : cs[i].id = card.id
  THEN [i \in 1..Len(cs) |-> IF cs[i].id = card.id THEN card ELSE cs[i]]
  ELSE InsertCard(cs, card)

RECURSIVE DisplayAll(_, _, _, _)
\* snapshot.docChanges().forEach(recycler.display) over the added and
\* modified documents ids, most recent first as the query orders them.
DisplayAll(cs, ids, docs, q) ==
  IF ids = {} THEN cs
  ELSE LET d == CHOOSE x \in ids : \A y \in ids : docs[x] >= docs[y]
       IN  DisplayAll(ViewCardOn(cs, DocCard(d, docs[d], q)), ids \ {d}, docs, q)

\* The onSnapshot callback of viewCards for query q: an empty snapshot
\* removes the query's cards; otherwise each removed document's card is
\* removed by id and each added or modified document is displayed.
OnSnapshot(cs, prev, docs, q) ==
  IF DOMAIN docs = {} THEN Remove(cs, LAMBDA c : c.query = q)
  ELSE LET removed == DOMAIN prev \ DOMAIN docs
           shown   == {d \in DOMAIN docs : d \notin DOMAIN prev \/ prev[d] # docs[d]}
       IN  DisplayAll(Remove(cs, LAMBDA c : c.id \in removed), shown, docs, q)

DashInit == cards = <<>> /\ snaps = [q \in 1..MaxQueries |-> <<>>]

\* A dashboard step leaves the other components alone.
DashFrame == UNCHANGED <<coreVars, rulesVars, configVars, clockVars, payVars, timerVars>>

\* viewDefaultCards shows a setup card.
ViewCard(card) ==
  /\ cards' = ViewCardOn(cards, card)
  /\ UNCHANGED snaps
  /\ DashFrame

\* Query q delivers its next snapshot.
QuerySnapshot(q, docs) ==
  /\ cards' = OnSnapshot(cards, snaps[q], docs, q)
  /\ snaps' = [snaps EXCEPT ![q] = docs]
  /\ DashFrame

DashNext ==
  \/ \E card \in SetupCards : ViewCard(card)
  \/ \E q \in 1..MaxQueries, docs \in Snapshots : QuerySnapshot(q, docs)

InitDash == DashInit /\ CoreIdle /\ RulesIdle /\ ConfigIdle /\ ClockIdle /\ PayIdle /\ TimerIdle
SpecDash == InitDash /\ [][DashNext]_vars

\* c is above d when it has the higher priority or, at equal priority, is
\* at least as recent.
InOrder(c, d) ==
  \/ c.priority > d.priority
  \/ c.priority = d.priority /\ c.timestamp >= d.timestamp

\* C14: the cards of a list are ordered by priority, highest on top, and
\* among equal priority by timestamp, most recent first.
C14_CardsOrdered ==
  \A i, j \in 1..Len(cards) : i < j => InOrder(cards[i], cards[j])

\* C15: for each query, the cards shown for it are the documents of its
\* latest snapshot, one card per document id.
C15_CardsAreLatestSnapshot ==
  \A q \in 1..MaxQueries :
    /\ {c.id : c \in {cards[i] : i \in Indices(cards, LAMBDA c : c.query = q)}}
         = DOMAIN snaps[q]
    /\ \A d \in DOMAIN snaps[q] :
         Cardinality(Indices(cards, LAMBDA c : c.id = d)) = 1

(***************************************************************************)
(* CONFIG: Config.viewLocationCards with updateHrsConfig, and the          *)
(* ConfirmationDialog its delete action views.  Config.locations is a      *)
(* sequence of [id, defined]: a key whose value is undefined stays a key.  *)
(***************************************************************************)
LocIds == {"l1", "l2"}

\* this.locations[id] = value
SetKey(ls, id, defined) ==
  IF \E i \in 1..Len(ls) : ls[i].id = id
  THEN [i \in 1..Len(ls) |-> IF ls[i].id = id THEN [id |-> id, defined |-> defined]
                             ELSE ls[i]]
  ELSE Append(ls, [id |-> id, defined |-> defined])

\* updateHrsConfig: l.config.hrs throws a TypeError on an undefined l.
Throws(ls) == \E i \in 1..Len(ls) : ~ls[i].defined
RuleEntries(ls) == [i \in 1..Len(ls) |-> ls[i].id]

ConfigInit ==
  /\ supervised = {} /\ locations = <<>> /\ hrsConfig = <<>> /\ cfgThrew = FALSE
  /\ locCards = {} /\ dialogs = <<>> /\ deleteCalls = <<>>

\* A configuration step leaves the other components alone.
ConfigFrame == UNCHANGED <<coreVars, rulesVars, dashVars, clockVars, payVars, timerVars>>

\* The handler sets this.locations, then calls updateHrsConfig; when that
\* throws, the rest of the handler (its change of the cards) does not run.
Handled(ls, cardsAfter) ==
  /\ locations' = ls
  /\ cfgThrew' = Throws(ls)
  /\ hrsConfig' = IF Throws(ls) THEN hrsConfig ELSE RuleEntries(ls)
  /\ locCards' = IF Throws(ls) THEN locCards ELSE cardsAfter
  /\ UNCHANGED <<dialogs, deleteCalls>>
  /\ ConfigFrame

\* recycler.display(doc): a location was added to the query or modified.
Display(id) ==
  /\ supervised' = supervised \cup {id}
  /\ Handled(SetKey(locations, id, TRUE), locCards \cup {id})

\* recycler.remove(doc): a location left the query, others remain.
RemoveLocation(id) ==
  /\ id \in supervised /\ supervised # {id}
  /\ supervised' = supervised \ {id}
  /\ Handled(SetKey(locations, id, FALSE), locCards \ {id})

\* recycler.empty(): the query holds no location.
Empty ==
  /\ supervised' = {}
  /\ Handled(<<>>, {})

\* How an MDCDialog closes: its yes or no button, or the scrim or escape key.
CloseActions == {"yes", "no", "close"}

RunsActionAlways(how) == TRUE

\* ConfirmationDialog's MDCDialog:closed handler: event.detail.action === 'yes'
RunsAction(how) == how = "yes"

\* The delete action of a location card: new ConfirmationDialog(...).view()
ClickDelete(id) ==
  /\ id \in locCards /\ Len(dialogs) < MaxDialogs
  /\ dialogs' = Append(dialogs, [loc |-> id, open |-> TRUE, attached |-> TRUE,
                                 how |-> "none", runs |-> 0])
  /\ UNCHANGED <<supervised, locations, hrsConfig, cfgThrew, locCards, deleteCalls>>
  /\ ConfigFrame

\* MDCDialog:closed: the element is removed, then the action runs on 'yes';
\* the action calls Data.deleteLocation(doc.id).
DialogClosed(i, how) ==
  /\ i \in DOMAIN dialogs /\ dialogs[i].open
  /\ dialogs' = [dialogs EXCEPT ![i] =
       [loc |-> @.loc, open |-> FALSE, attached |-> FALSE, how |-> how,
        runs |-> IF RunsAction(how) THEN @.runs + 1 ELSE @.runs]]
  /\ deleteCalls' = IF RunsAction(how) THEN Append(deleteCalls, dialogs[i].loc)
                    ELSE deleteCalls
  /\ UNCHANGED <<supervised, locations, hrsConfig, cfgThrew, locCards>>
  /\ ConfigFrame

ConfigNext ==
  \/ \E id \in LocIds : Display(id)
  \/ \E id \in LocIds : RemoveLocation(id)
  \/ Empty
  \/ \E id \in LocIds : ClickDelete(id)
  \/ \E i \in 1..MaxDialogs, how \in CloseActions : DialogClosed(i, how)

InitConfig == ConfigInit /\ CoreIdle /\ RulesIdle /\ DashIdle /\ ClockIdle /\ PayIdle /\ TimerIdle
SpecConfig == InitConfig /\ [][ConfigNext]_vars

\* C16: after every display, remove or empty event the HrsConfig was rebuilt
\* without error and holds exactly one rule entry for each location the
\* user supervises, and none for any other.
C16_HrsConfigMatchesSupervised ==
  /\ ~cfgThrew
  /\ {hrsConfig[i] : i \in DOMAIN hrsConfig} = supervised
  /\ Len(hrsConfig) = Cardinality(supervised)

Confirmed(loc) ==
  {i \in DOMAIN dialogs : dialogs[i].loc = loc /\ ~dialogs[i].open /\ dialogs[i].how = "yes"}

\* C20: a ConfirmationDialog runs its action once when closed with 'yes' and
\* never otherwise, its element is removed whenever it is closed, and
\* Data.deleteLocation is called for a location once per confirmed dialog.
C20_ActionOnlyOnYes ==
  /\ \A i \in DOMAIN dialogs :
       /\ dialogs[i].runs = IF i \in Confirmed(dialogs[i].loc) THEN 1 ELSE 0
       /\ dialogs[i].attached = dialogs[i].open
  /\ \A loc \in LocIds :
       Cardinality({k \in DOMAIN deleteCalls : deleteCalls[k] = loc})
         = Cardinality(Confirmed(loc))

\* One dialog was dismissed and one confirmed: one delete call was made.
C20_OneDismissedOneConfirmed ==
  /\ Len(dialogs) = 2 /\ ~dialogs[1].open /\ dialogs[1].how = "close"
  /\ ~dialogs[2].open /\ dialogs[2].how = "yes"
  /\ deleteCalls = <<dialogs[2].loc>>

(***************************************************************************)
(* CLOCK: ViewApptDialog and ViewActiveApptDialog as a free tutor sees     *)
(* them: the floating button, clockIn, clockOut and the header's           *)
(* navigation button.  A request is [kind, pc] with pc "pending" until     *)
(* Data.clockIn / Data.clockOut settles.                                   *)
(***************************************************************************)
DialogClasses == {"ViewApptDialog", "ViewActiveApptDialog"}

\* render.fab('clockIn'), relabelled by ViewActiveApptDialog.renderSelf.
FirstLabel(class) == IF class = "ViewActiveApptDialog" THEN "ClockOut" ELSE "ClockIn"

NoClick == [target |-> "none", label |-> "none", sent |-> "none", nav |-> "none"]

ClockInit ==
  /\ apptDialog \in [class : DialogClasses, viewed : {TRUE}]
  /\ timerOn = FALSE
  /\ fabLabel = FirstLabel(apptDialog.class)
  /\ navLocked = FALSE /\ clockReqs = <<>> /\ lastClick = NoClick

\* A clock step leaves the other components alone.
ClockFrame == UNCHANGED <<coreVars, rulesVars, dashVars, configVars, payVars, timerVars>>

\* What the floating button's click handler calls: it tests this.timer.
SendsByLabel(timer, label) == IF label = "ClockIn" THEN "clockIn" ELSE "clockOut"

Sends(timer, label) == IF ~timer THEN "clockIn" ELSE "clockOut"

\* The floating button is clicked: clockIn sets the timer and calls
\* Data.clockIn, clockOut clears the timer and calls Data.clockOut; the
\* handler then sets the label.
ClickFab ==
  /\ apptDialog.viewed /\ Len(clockReqs) < MaxClicks
  /\ LET kind == Sends(timerOn, fabLabel) IN
       /\ timerOn' = (kind = "clockIn")
       /\ clockReqs' = Append(clockReqs, [kind |-> kind, pc |-> "pending"])
       /\ fabLabel' = IF kind = "clockIn" THEN "ClockOut" ELSE "ClockIn"
       /\ lastClick' = [target |-> "fab", label |-> fabLabel, sent |-> kind,
                        nav |-> "none"]
  /\ UNCHANGED <<apptDialog, navLocked>>
  /\ ClockFrame

\* What the rest of clockIn / clockOut does to the header once the request
\* resolved: only clockIn replaces the click handler, nothing restores it.
LockedAfter(kind, locked) == locked \/ kind = "clockIn"

\* Data.clockIn / Data.clockOut settles; a rejection ends the async method.
ClockResponse(i, ok) ==
  /\ i \in DOMAIN clockReqs /\ clockReqs[i].pc = "pending"
  /\ clockReqs' = [clockReqs EXCEPT ![i].pc = IF ok THEN "resolved" ELSE "rejected"]
  /\ navLocked' = IF ok THEN LockedAfter(clockReqs[i].kind, navLocked) ELSE navLocked
  /\ UNCHANGED <<apptDialog, timerOn, fabLabel, lastClick>>
  /\ ClockFrame

\* The header's navigation button is clicked: the locking handler shows a
\* snackbar, the original one navigates back.
ClickHeader ==
  /\ apptDialog.viewed
  /\ lastClick' = [target |-> "header", label |-> "none", sent |-> "none",
                   nav |-> IF navLocked THEN "locked" ELSE "back"]
  /\ apptDialog' = [apptDialog EXCEPT !.viewed = navLocked]
  /\ UNCHANGED <<timerOn, fabLabel, navLocked, clockReqs>>
  /\ ClockFrame

ClockNext ==
  \/ ClickFab
  \/ \E i \in 1..MaxClicks, ok \in BOOLEAN : ClockResponse(i, ok)
  \/ ClickHeader

InitClock == ClockInit /\ CoreIdle /\ RulesIdle /\ DashIdle /\ ConfigIdle /\ PayIdle /\ TimerIdle
SpecClock == InitClock /\ [][ClockNext]_vars

\* C17: a click on the floating button sends a clock-in request exactly
\* when the button is labelled 'ClockIn' and a clock-out request exactly
\* when it is labelled 'ClockOut', in both dialog classes.
C17_ClickSendsWhatLabelSays ==
  lastClick.target = "fab" =>
    /\ (lastClick.sent = "clockIn") = (lastClick.label = "ClockIn")
    /\ (lastClick.sent = "clockOut") = (lastClick.label = "ClockOut")

\* The tutor's clock-in request was sent and resolved, and the tutor has
\* not clocked out since.
ClockedIn ==
  /\ timerOn
  /\ \E i \in DOMAIN clockReqs :
       /\ clockReqs[i].kind = "clockIn" /\ clockReqs[i].pc = "resolved"
       /\ \A j \in DOMAIN clockReqs : j > i => clockReqs[j].kind = "clockIn"

\* C18: navigation is locked once the tutor's clock-in request went
\* through, unlocked again once the tutor has clocked out, and never locked
\* while the tutor is not clocked in.
C18_LockedIffClockedIn ==
  /\ ClockedIn => navLocked
  /\ ~timerOn => ~navLocked

PayClasses == {"PaidRequestDialog", "StripeRequestDialog"}

PayInit ==
  /\ payDialog \in [class : PayClasses, transaction : {"none"}]
  /\ payPending = [authorize |-> 0, token |-> 0]
  /\ newRequests = 0 /\ sendLog = <<>>

\* A payment step leaves the other components alone.
PayFrame == UNCHANGED <<coreVars, rulesVars, dashVars, configVars, clockVars, timerVars>>

Started == Len(sendLog) + payPending.authorize + payPending.token

PaidSendRequestUnchecked(transaction) == [sent |-> TRUE, snack |-> "none"]

\* PaidRequestDialog.sendRequest: without a transaction it shows a snackbar
\* and returns, else NewRequestDialog.sendRequest calls Data.newRequest.
PaidSendRequest(transaction) ==
  IF transaction = "none"
  THEN [sent |-> FALSE, snack |-> "Please add a valid payment method."]
  ELSE [sent |-> TRUE, snack |-> "none"]

Finish(class, transaction, error, done) ==
  /\ sendLog' = Append(sendLog, [class |-> class, transaction |-> transaction,
                                 error |-> error, sent |-> done.sent,
                                 snack |-> done.snack])
  /\ newRequests' = IF done.sent THEN newRequests + 1 ELSE newRequests

\* The PayPal button's onApprove: actions.order.authorize() is awaited.
Approve ==
  /\ payDialog.class = "PaidRequestDialog" /\ Started < MaxSends
  /\ payPending' = [payPending EXCEPT !.authorize = @ + 1]
  /\ UNCHANGED <<payDialog, newRequests, sendLog>>
  /\ PayFrame

\* authorize() settles: its then-callback sets payment.transaction.
Authorized(ok) ==
  /\ payPending.authorize > 0
  /\ payPending' = [payPending EXCEPT !.authorize = @ - 1]
  /\ payDialog' = IF ok THEN [payDialog EXCEPT !.transaction = "paypal"] ELSE payDialog
  /\ UNCHANGED <<newRequests, sendLog>>
  /\ PayFrame

\* #send is clicked in a PaidRequestDialog.
SendPaid ==
  /\ payDialog.class = "PaidRequestDialog" /\ Started < MaxSends
  /\ Finish(payDialog.class, payDialog.transaction, FALSE,
            PaidSendRequest(payDialog.transaction))
  /\ UNCHANGED <<payDialog, payPending>>
  /\ PayFrame

\* #send is clicked in a StripeRequestDialog: stripe.createToken is awaited.
SendStripe ==
  /\ payDialog.class = "StripeRequestDialog" /\ Started < MaxSends
  /\ payPending' = [payPending EXCEPT !.token = @ + 1]
  /\ UNCHANGED <<payDialog, newRequests, sendLog>>
  /\ PayFrame

\* createToken resolves with {error} or {token}: on an error the message is
\* shown, else the token becomes the transaction and super.sendRequest runs.
TokenCreated(error) ==
  /\ payPending.token > 0
  /\ payPending' = [payPending EXCEPT !.token = @ - 1]
  /\ IF error
     THEN /\ Finish(payDialog.class, payDialog.transaction, TRUE,
                    [sent |-> FALSE, snack |-> "res.error.message"])
          /\ UNCHANGED payDialog
     ELSE /\ payDialog' = [payDialog EXCEPT !.transaction = "stripe"]
          /\ Finish(payDialog.class, "stripe", FALSE, PaidSendRequest("stripe"))
  /\ PayFrame

PayNext ==
  \/ Approve
  \/ \E ok \in BOOLEAN : Authorized(ok)
  \/ SendPaid
  \/ SendStripe
  \/ \E error \in BOOLEAN : TokenCreated(error)

InitPay == PayInit /\ CoreIdle /\ RulesIdle /\ DashIdle /\ ConfigIdle /\ ClockIdle /\ TimerIdle
SpecPay == InitPay /\ [][PayNext]_vars

\* C19: a paid request is posted through Data.newRequest only by a
\* sendRequest that found payment.transaction set by a PayPal authorization
\* (PaidRequestDialog) or by the Stripe token just created
\* (StripeRequestDialog); a sendRequest without a transaction, or whose
\* token creation returned an error, posts nothing and shows a snackbar.
C19_RequestOnlyWithTransaction ==
  /\ \A k \in DOMAIN sendLog :
       LET e == sendLog[k] IN
         /\ e.sent = (~e.error /\ e.transaction # "none")
         /\ e.sent => e.transaction =
              (IF e.class = "PaidRequestDialog" THEN "paypal" ELSE "stripe")
         /\ ~e.sent => e.snack # "none"
  /\ newRequests = Cardinality({k \in DOMAIN sendLog : sendLog[k].sent})

\* A PaidRequestDialog refused to send without a transaction and sent once
\* the authorization had set it.
C19_RefusedThenSent ==
  /\ Len(sendLog) = 2 /\ sendLog[1].class = "PaidRequestDialog"
  /\ ~sendLog[1].sent /\ sendLog[1].transaction = "none"
  /\ sendLog[2].sent /\ sendLog[2].transaction = "paypal"
  /\ newRequests = 1

(***************************************************************************)
(* TIMER: ViewApptDialog.update, which setInterval calls every 10 ms while *)
(* the tutor is clocked in.  A text field's value 'H:M:S.C' is kept as its *)
(* four runs of decimal digits [h, m, s, c], each a sequence of digits.    *)
(***************************************************************************)
RECURSIVE ToDigits(_)
\* number + '': the decimal digits of n, without padding.
ToDigits(n) == IF n < 10 THEN <<n>> ELSE Append(ToDigits(n \div 10), n % 10)

RECURSIVE FromDigits(_)
\* new Number(string): leading zeros do not count.
FromDigits(ds) ==
  IF ds = <<>> THEN 0 ELSE 10 * FromDigits(SubSeq(ds, 1, Len(ds) - 1)) + ds[Len(ds)]

\* render.textField('Current', '0:0:0.00')
FirstValue == [h |-> <<0>>, m |-> <<0>>, s |-> <<0>>, c |-> <<0, 0>>]

AdvanceCarryAt99(h, m, s, c) ==
  LET c1   == c + 1
      cOver == c1 = 99
      s1   == IF cOver THEN s + 1 ELSE s
      sOver == cOver /\ s1 = 60
      m1   == IF sOver THEN m + 1 ELSE m
      mOver == sOver /\ m1 = 60
  IN  [h |-> IF mOver THEN h + 1 ELSE h, m |-> IF mOver THEN 0 ELSE m1,
       s |-> IF sOver THEN 0 ELSE s1, c |-> IF cOver THEN 0 ELSE c1]

\* The increment of the hundredths and the three carries.  A parsed field
\* is a Number object until ++ makes it a number, so === 60 can only hold
\* of a field that the carry below it has just incremented.
Advance(h, m, s, c) ==
  LET c1   == c + 1
      cOver == c1 = 100
      s1   == IF cOver THEN s + 1 ELSE s
      sOver == cOver /\ s1 = 60
      m1   == IF sOver THEN m + 1 ELSE m
      mOver == sOver /\ m1 = 60
  IN  [h |-> IF mOver THEN h + 1 ELSE h, m |-> IF mOver THEN 0 ELSE m1,
       s |-> IF sOver THEN 0 ELSE s1, c |-> IF cOver THEN 0 ELSE c1]

\* One field's part of update: split and parse the value, advance it, and
\* join the numbers again.
UpdateValue(v) ==
  LET n == Advance(FromDigits(v.h), FromDigits(v.m), FromDigits(v.s), FromDigits(v.c))
  IN  [h |-> ToDigits(n.h), m |-> ToDigits(n.m), s |-> ToDigits(n.s),
       c |-> ToDigits(n.c)]

TimerInit == current = FirstValue /\ total = FirstValue /\ ticks = 0

\* A timer step leaves the other components alone.
TimerFrame == UNCHANGED <<coreVars, rulesVars, dashVars, configVars, clockVars, payVars>>

\* The interval timer calls update.
TimerTick ==
  /\ ticks < MaxTicks
  /\ current' = UpdateValue(current)
  /\ total' = UpdateValue(total)
  /\ ticks' = ticks + 1
  /\ TimerFrame

TimerNext == TimerTick

InitTimer ==
  TimerInit /\ CoreIdle /\ RulesIdle /\ DashIdle /\ ConfigIdle /\ ClockIdle /\ PayIdle
SpecTimer == InitTimer /\ [][TimerNext]_vars

\* The hundredths of a second a value stands for.
Hundredths(v) ==
  ((FromDigits(v.h) * 60 + FromDigits(v.m)) * 60 + FromDigits(v.s)) * 100
    + FromDigits(v.c)

InRange(v) ==
  /\ FromDigits(v.c) \in 0..99
  /\ FromDigits(v.s) \in 0..59
  /\ FromDigits(v.m) \in 0..59

====
